---- MODULE Spec2Model ----
(***************************************************************************)
(* MENA Dominion Bank - core engine (src/script.js).                        *)
(*                                                                         *)
(* The model follows the page's JavaScript at the granularity of the event *)
(* loop: every handler runs to completion up to its next `await`, so one   *)
(* action is one run-to-completion segment of processLogin, of the         *)
(* setInterval callback, or of logout.  The remote vault (the Sheety       *)
(* spreadsheet) and the user typing into the form are the environment.     *)
(*                                                                         *)
(* JavaScript values are tagged: Str(<<chars>>), Num(n), Undef.  Strings    *)
(* are sequences of one-character strings so that trim, toString, split    *)
(* and toUpperCase are computed, and === is equality of tagged values.     *)
(***************************************************************************)
EXTENDS Integers, Sequences, FiniteSets, Bags

\* ------------------------------------------------------------------ bounds
\* Wall-clock horizon, in timer periods (CONFIG.REFRESH_RATE each).
MaxNow == 2
\* Largest number of fetches awaiting delivery at once.
MaxInflight == 2
\* Longest collection the verifier is tried on.
MaxRows == 2
\* Edits of the sheet in the runs that number its states.
MaxEdits == 2

\* -------------------------------------------------------- JavaScript values
Str(s) == [t |-> "str", s |-> s]
Num(n) == [t |-> "num", n |-> n]
Undef == [t |-> "undefined"]
Null == [t |-> "null"]
\* new Date() taken when the clock shows n.
DateAt(n) == [t |-> "date", at |-> n]

IsStr(v) == v.t = "str"
IsNum(v) == v.t = "num"

\* Boolean coercion of a value, as `if (v)` and `v || d` apply it.
Truthy(v) ==
    CASE v.t = "str" -> v.s # <<>>
      [] v.t = "num" -> v.n # 0
      [] OTHER -> FALSE

RECURSIVE TrimLeft(_)
TrimLeft(s) == IF s # <<>> /\ Head(s) = " " THEN TrimLeft(Tail(s)) ELSE s

RECURSIVE TrimRight(_)
TrimRight(s) ==
    IF s # <<>> /\ s[Len(s)] = " " THEN TrimRight(SubSeq(s, 1, Len(s) - 1)) ELSE s

\* String.prototype.trim on a character sequence.
Trim(s) == TrimRight(TrimLeft(s))

Digit(d) == CASE d = 0 -> "0" [] d = 1 -> "1" [] d = 2 -> "2" [] d = 3 -> "3"
              [] d = 4 -> "4" [] d = 5 -> "5" [] d = 6 -> "6" [] d = 7 -> "7"
              [] d = 8 -> "8" [] d = 9 -> "9"

RECURSIVE NatToString(_)
NatToString(n) == IF n < 10 THEN <<Digit(n)>> ELSE NatToString(n \div 10) \o <<Digit(n % 10)>>

\* Number.prototype.toString / String.prototype.toString on a tagged value
\* (only called on Str and Num; the callers raise TypeError otherwise).
JsToString(v) == IF IsNum(v) THEN NatToString(v.n) ELSE v.s

Upper(c) == CASE c = "s" -> "S" [] c = "c" -> "C" [] OTHER -> c

\* String.prototype.toUpperCase.
ToUpperCase(s) == [i \in 1..Len(s) |-> Upper(s[i])]

RECURSIVE SplitAcc(_, _, _)
SplitAcc(s, cur, acc) ==
    IF s = <<>> THEN Append(acc, cur)
    ELSE IF Head(s) = ";" THEN SplitAcc(Tail(s), <<>>, Append(acc, cur))
    ELSE SplitAcc(Tail(s), Append(cur, Head(s)), acc)

\* String.prototype.split(';').
Split(s) == SplitAcc(s, <<>>, <<>>)

\* --------------------------------------------------- the spreadsheet rows
\* One row of the sheet as Sheety returns it (columns A-M, camelCase keys).
\* A cell left empty in the sheet is absent from the object: Undef.
Alice ==
    [username |-> Str(<<"a">>), password |-> Num(12), fullName |-> Str(<<"A">>),
     accountType |-> Str(<<"s">>), accountNumber |-> Num(7),
     balance |-> Num(500), currency |-> Str(<<"U", "S", "D">>),
     transactionHistory |-> Str(<<"x", ";", " ", "y">>),
     accountStatus |-> Undef, creditScore |-> Num(650)]

\* Alice's row after the administrator changed balance, ledger and score.
AliceEdited ==
    [Alice EXCEPT !.balance = Num(1900), !.transactionHistory = Undef,
                  !.creditScore = Undef]

\* A row whose account-type cell (column E) is empty and whose username
\* cell carries a trailing blank.
Bob ==
    [username |-> Str(<<"b", " ">>), password |-> Str(<<"p">>), fullName |-> Str(<<"B">>),
     accountType |-> Undef, accountNumber |-> Num(8),
     balance |-> Num(20), currency |-> Undef,
     transactionHistory |-> Undef,
     accountStatus |-> Str(<<"F">>), creditScore |-> Undef]

\* A second row with Alice's user name and password (the sheet enforces no
\* uniqueness).
AliceTwin == [Alice EXCEPT !.balance = Num(1)]

\* A row whose password cell carries a trailing blank.
Carol == [Bob EXCEPT !.username = Str(<<"c">>), !.password = Str(<<"p", " ">>)]

\* A row whose user-name cell holds digits only: Sheety yields a number.
Dan == [Bob EXCEPT !.username = Num(7), !.password = Str(<<"q">>)]

\* A row with Alice's user name whose password cell is empty.
Eve == [Alice EXCEPT !.password = Undef, !.balance = Num(2)]

\* The collections the vault can hold (result.userDatabase of one fetch).
\* after the edit Bob's row is gone as well.
Vaults == {<<Alice, Bob>>, <<AliceEdited>>}

\* What the user can have typed into #input-user / #input-pass.
Creds ==
    {[user |-> <<" ", "a">>, pass |-> <<"1", "2", " ">>],
     [user |-> <<"b">>, pass |-> <<"p">>],
     [user |-> <<"b">>, pass |-> <<>>]}

\* Marker for "the expression raised an exception".
Thrown == [t |-> "thrown"]

\* ------------------------------------------------- credential verification
\* Mutation of Matches: the comparison of the password is missing.
Matches_IgnoreSecret(u, user, pass) ==
    IF ~IsStr(u.username) THEN "throw"
    ELSE IF Trim(u.username.s) # Trim(user) THEN "no"
    ELSE "yes"

\* The predicate of the find in processLogin, on one row:
\*   u.username.trim() === userField.value.trim() &&
\*   u.password.toString() === passField.value.trim()
\* "throw" when a method is called on a value that does not have it.
Matches(u, user, pass) ==
    IF ~IsStr(u.username) THEN "throw"
    ELSE IF Trim(u.username.s) # Trim(user) THEN "no"
    ELSE IF ~(IsStr(u.password) \/ IsNum(u.password)) THEN "throw"
    ELSE IF JsToString(u.password) = Trim(pass) THEN "yes"
    ELSE "no"

\* vaultData.find(...) of processLogin: the first matching row in collection
\* order, Undef when none matches, Thrown when the predicate raises first.
RECURSIVE FindCredentials(_, _, _)
FindCredentials(vaultData, user, pass) ==
    IF vaultData = <<>> THEN Undef
    ELSE LET m == Matches(Head(vaultData), user, pass)
         IN  CASE m = "yes" -> Head(vaultData)
               [] m = "throw" -> Thrown
               [] OTHER -> FindCredentials(Tail(vaultData), user, pass)

\* result.userDatabase.find(u => u.username === activeSession.userData.username)
\* of the sync callback: strict equality, no trimming.
RECURSIVE FindByUsername(_, _)
FindByUsername(userDatabase, username) ==
    IF userDatabase = <<>> THEN Undef
    ELSE IF Head(userDatabase).username = username THEN Head(userDatabase)
    ELSE FindByUsername(Tail(userDatabase), username)

\* ------------------------------------------------------------- rendering
Pad3(n) == <<Digit(n \div 100), Digit((n \div 10) % 10), Digit(n % 10)>>

RECURSIVE Grouped(_)
Grouped(n) == IF n < 1000 THEN NatToString(n) ELSE Grouped(n \div 1000) \o <<",">> \o Pad3(n % 1000)

\* formatCurrency(amount, currency = 'USD'): Intl.NumberFormat('en-US',
\* {style: 'currency', currency}).format(amount).  An absent currency takes
\* the default; a currency that is not a three-letter code raises RangeError.
FormatCurrency(amount, currency) ==
    LET code == IF currency = Undef THEN <<"U", "S", "D">>
                ELSE IF IsStr(currency) THEN currency.s
                ELSE <<>>
        sym == IF code = <<"U", "S", "D">> THEN <<"$">> ELSE code \o <<" ">>
    IN  IF Len(code) # 3 THEN Thrown
        ELSE IF IsNum(amount) THEN Str(sym \o Grouped(amount.n) \o <<".", "0", "0">>)
        ELSE Str(sym \o <<"N", "a", "N">>)

\* String conversion inside a template literal: `${v}`.
TemplateString(v) ==
    CASE IsStr(v) -> v.s
      [] IsNum(v) -> NatToString(v.n)
      [] OTHER -> <<"u", "n", "d", "e", "f", "i", "n", "e", "d">>

\* `Acc: ${u.accountNumber}`
AccLabel(v) == Str(<<"A", "c", "c", ":", " ">> \o TemplateString(v))

\* The avatar URL built from the display name (query string abbreviated to
\* the part that depends on the record).
AvatarUrl(v) == Str(<<"?", "n", "a", "m", "e", "=">> \o TemplateString(v) \o <<"&">>)

\* The surfaces renderDashboard writes, before anything was rendered.
BlankDom ==
    [clientName |-> Undef, userBalance |-> Undef, userAccNum |-> Undef,
     userAccType |-> Undef, userCredit |-> Undef, userStatus |-> Undef,
     userHistory |-> <<>>, userAvatar |-> Undef, dashboard |-> FALSE]

\* renderDashboard, statement by statement on the surfaces d with u the held
\* record; a statement that raises leaves the later surfaces as they were.
\* Returns the surfaces and whether the function raised.
RenderDashboard(u, d) ==
    LET d1 == [d EXCEPT !.clientName = u.fullName]
        bal == FormatCurrency(u.balance, u.currency)
        d2 == [d1 EXCEPT !.userBalance = bal, !.userAccNum = AccLabel(u.accountNumber)]
        d3 == [d2 EXCEPT !.userAccType = Str(ToUpperCase(u.accountType.s)),
                         !.userCredit = IF Truthy(u.creditScore) THEN u.creditScore
                                        ELSE Str(<<"7", "0", "0">>),
                         !.userStatus = IF Truthy(u.accountStatus) THEN u.accountStatus
                                        ELSE Str(<<"A", "c", "t", "i", "v", "e">>)]
        d4 == [d3 EXCEPT !.userHistory =
                   [i \in 1..Len(Split(u.transactionHistory.s)) |->
                       Trim(Split(u.transactionHistory.s)[i])]]
    IN  IF bal = Thrown THEN [dom |-> d1, threw |-> TRUE]
        ELSE IF ~IsStr(u.accountType) THEN [dom |-> d2, threw |-> TRUE]
        ELSE IF ~Truthy(u.transactionHistory)
             THEN [dom |-> [d3 EXCEPT !.userAvatar = AvatarUrl(u.fullName)], threw |-> FALSE]
        ELSE IF ~IsStr(u.transactionHistory) THEN [dom |-> d3, threw |-> TRUE]
        ELSE [dom |-> [d4 EXCEPT !.userAvatar = AvatarUrl(u.fullName)], threw |-> FALSE]

\* ------------------------------------------------------------------ state
VARIABLES
    activeSession,  \* the global session object
    inputUser,      \* #input-user .value
    inputPass,      \* #input-pass .value
    loading,        \* .btn-auth-action is disabled and shows the spinner
    alertShown,     \* the alert() the last step raised, "none" if it raised none
    dom,            \* the surfaces renderDashboard and handleAuthSuccess write
    vault,          \* the remote sheet: the collection a fetch would return now
    network,        \* the bag of fetches issued by this page and not yet resumed
    now,            \* wall clock, in timer periods
    lastEvent       \* the handler segment that ran last and what its find returned

vars == <<activeSession, inputUser, inputPass, loading, alertShown, dom, vault,
          network, now, lastEvent>>

Pending == [status |-> "pending"]

\* What one GET can come back with: the collection as it is at that moment,
\* or a failure.  "failed" stands for every way the two awaits and the
\* access to result.userDatabase raise inside the try block: fetch rejects,
\* response.json() rejects, or the body has no userDatabase array (so that
\* .find is called on undefined).
Responses(v) == {[status |-> "ok", userDatabase |-> v], [status |-> "failed"]}

\* op: the segment ("env" for a step of the environment); req: the fetch the
\* segment resumed from, without its answer (Undef for the other segments);
\* found: what its find returned (Undef when it did not get that far); a
\* firing of the timer that fetches nothing notes there the segment it
\* came after.
\* A fetch as it was issued: the request without its answer.
Issued(req) == [req EXCEPT !.resp = Pending]

Event(op, req, found) == [op |-> op, req |-> req, found |-> found]

AnonymousSession == [isAuthenticated |-> FALSE, userData |-> Null, lastSync |-> Null]

MsgRequired == "Security Alert: Credentials Required"
MsgDenied == "Access Denied: Invalid Authorization"
MsgTimeout == "System Error: Vault Connection Timed Out"

Init ==
    /\ activeSession = AnonymousSession
    /\ inputUser = <<>>
    /\ inputPass = <<>>
    /\ loading = FALSE
    /\ alertShown = "none"
    /\ dom = BlankDom
    /\ vault \in Vaults
    /\ network = EmptyBag
    /\ now = 0
    /\ lastEvent = Event("load", Undef, Undef)

One(r) == SetToBag({r})

LoginsInFlight == {r \in BagToSet(network) : r.kind = "login"}
TicksInFlight == {r \in BagToSet(network) : r.kind = "tick"}

\* --------------------------------------------------------- the environment
\* The user types a user name and a password into the form.
TypeCredentials ==
    /\ \E c \in Creds :
          /\ <<c.user, c.pass>> # <<inputUser, inputPass>>
          /\ inputUser' = c.user
          /\ inputPass' = c.pass
    /\ lastEvent' = Event("env", Undef, Undef)
    /\ UNCHANGED <<activeSession, loading, dom, vault, network, now>>
    /\ alertShown' = "none"

\* The administrator edits the sheet.
AdminEdit ==
    /\ vault' \in Vaults \ {vault}
    /\ lastEvent' = Event("env", Undef, Undef)
    /\ UNCHANGED <<activeSession, inputUser, inputPass, loading, dom,
                   network, now>>
    /\ alertShown' = "none"

\* The remote end answers a fetch that is still waiting.
ServerRespond ==
    /\ \E q \in BagToSet(network) :
          /\ q.resp = Pending
          /\ \E r \in Responses(vault) :
                network' = (network (-) One(q)) (+) One([q EXCEPT !.resp = r])
    /\ lastEvent' = Event("env", Undef, Undef)
    /\ UNCHANGED <<activeSession, inputUser, inputPass, loading, dom,
                   vault, now>>
    /\ alertShown' = "none"

\* ------------------------------------------------------------ processLogin
\* Mutation of HandleAuthSuccess: the write of lastSync (line 90) is missing.
HandleAuthSuccess_NoSyncTime(data) ==
    [isAuthenticated |-> TRUE, userData |-> data, lastSync |-> activeSession.lastSync]

\* Mutation of HandleAuthSuccess: a session that already holds a record
\* keeps it.
HandleAuthSuccess_KeepFirst(data) ==
    [isAuthenticated |-> TRUE,
     userData |-> IF activeSession.isAuthenticated THEN activeSession.userData ELSE data,
     lastSync |-> DateAt(now)]

\* handleAuthSuccess, lines 88-90: the session object after the three writes.
HandleAuthSuccess(data) ==
    [isAuthenticated |-> TRUE, userData |-> data, lastSync |-> DateAt(now)]

\* Bookkeeping: a login fetch that another processLogin call overlaps.
Overlapped(q) == IF q.kind = "login" THEN [q EXCEPT !.overlapped = TRUE] ELSE q

\* Mutation of LoginSubmit: the check looks at the user name only.
LoginSubmit_UserOnly ==
    IF inputUser = <<>>
    THEN /\ alertShown' = MsgRequired
         /\ lastEvent' = Event("login_rejected", Undef, Undef)
         /\ UNCHANGED <<activeSession, inputUser, inputPass, loading, dom, vault,
                        network, now>>
    ELSE /\ BagCardinality(network) < MaxInflight
         /\ loading' = TRUE
         /\ network' = BagOfAll(Overlapped, network) (+)
                One([kind |-> "login", resp |-> Pending,
                     startedAnonymous |-> ~activeSession.isAuthenticated,
                     overlapped |-> LoginsInFlight # {}])
         /\ lastEvent' = Event("login_submit", Undef, Undef)
         /\ alertShown' = "none"
         /\ UNCHANGED <<activeSession, inputUser, inputPass, dom, vault, now>>

\* processLogin up to its first await: the empty-field check, the spinner,
\* the fetch.
LoginSubmit ==
    IF inputUser = <<>> \/ inputPass = <<>>
    THEN /\ alertShown' = MsgRequired
         /\ lastEvent' = Event("login_rejected", Undef, Undef)
         /\ UNCHANGED <<activeSession, inputUser, inputPass, loading, dom, vault,
                        network, now>>
    ELSE /\ BagCardinality(network) < MaxInflight
         /\ loading' = TRUE
         /\ network' = BagOfAll(Overlapped, network) (+)
                One([kind |-> "login", resp |-> Pending,
                     startedAnonymous |-> ~activeSession.isAuthenticated,
                     overlapped |-> LoginsInFlight # {}])
         /\ lastEvent' = Event("login_submit", Undef, Undef)
         /\ alertShown' = "none"
         /\ UNCHANGED <<activeSession, inputUser, inputPass, dom, vault, now>>

\* Mutation of LoginCatch: the handler also drops the session.
LoginCatch_Reset(s, d, op, found) ==
    [session |-> AnonymousSession, dom |-> d, alert |-> MsgTimeout, loading |-> FALSE,
     op |-> op, found |-> found]

\* The catch block of processLogin, lines 79-83, entered with the session s
\* and the surfaces d as the try block left them.
LoginCatch(s, d, op, found) ==
    [session |-> s, dom |-> d, alert |-> MsgTimeout, loading |-> FALSE,
     op |-> op, found |-> found]

\* processLogin from the resumption of its awaits to its end, lines 60-84,
\* given the answer resp: what it leaves in the session, on the surfaces, in
\* the alert and on the button.
LoginOutcome(resp) ==
    IF resp.status # "ok" THEN LoginCatch(activeSession, dom, "login_unavailable", Undef)
    ELSE LET userFound == FindCredentials(resp.userDatabase, inputUser, inputPass)
             shown == [dom EXCEPT !.dashboard = TRUE]
             r == RenderDashboard(userFound, shown)
         IN  IF userFound = Thrown THEN LoginCatch(activeSession, dom, "login_unavailable", Undef)
             ELSE IF userFound = Undef
             THEN [session |-> activeSession, dom |-> dom, alert |-> MsgDenied,
                   loading |-> FALSE, op |-> "login_denied", found |-> Undef]
             ELSE IF r.threw
             THEN LoginCatch(HandleAuthSuccess(userFound), r.dom, "login_fault", userFound)
             ELSE [session |-> HandleAuthSuccess(userFound), dom |-> r.dom,
                   alert |-> "none", loading |-> loading, op |-> "login_ok",
                   found |-> userFound]

LoginResume ==
    \E q \in LoginsInFlight :
       /\ q.resp # Pending
       /\ network' = network (-) One(q)
       /\ UNCHANGED <<inputUser, inputPass, vault, now>>
       /\ \E o \in {LoginOutcome(q.resp)} :
              /\ activeSession' = o.session
              /\ dom' = o.dom
              /\ alertShown' = o.alert
              /\ loading' = o.loading
              /\ lastEvent' = Event(o.op, Issued(q), o.found)

\* ------------------------------------------------- the auto-sync callback
\* The user name of the record the session holds (line 169 reads it), Undef
\* while it holds none.
HeldKey ==
    IF activeSession.userData = Null THEN Undef ELSE activeSession.userData.username

\* Mutation of TimerFire: the isAuthenticated test (line 165) is missing.
TimerFire_AlwaysFetch ==
    /\ now < MaxNow
    /\ now' = now + 1
    /\ BagCardinality(network) < MaxInflight
    /\ network' = network (+) One([kind |-> "tick", resp |-> Pending, heldAtIssue |-> HeldKey])
    /\ lastEvent' = Event("tick_fetch", Undef, Undef)
    /\ alertShown' = "none"
    /\ UNCHANGED <<activeSession, inputUser, inputPass, loading, dom, vault>>

\* The setInterval callback up to its first await: the isAuthenticated test
\* and the fetch.  One firing is one period of the clock.
TimerFire ==
    /\ now < MaxNow
    /\ now' = now + 1
    /\ IF activeSession.isAuthenticated
       THEN /\ BagCardinality(network) < MaxInflight
            /\ network' = network (+) One([kind |-> "tick", resp |-> Pending, heldAtIssue |-> HeldKey])
            /\ lastEvent' = Event("tick_fetch", Undef, Undef)
       ELSE /\ network' = network
            /\ lastEvent' = [Event("tick_skip", Undef, Undef) EXCEPT
                                !.found = Str(<<lastEvent.op>>)]
    /\ UNCHANGED <<activeSession, inputUser, inputPass, loading, dom, vault>>
    /\ alertShown' = "none"

\* Mutation of SyncOutcome: the `if (freshData)` test (line 171) is missing,
\* so a collection without the held key stores undefined.
SyncOutcome_NoFoundTest(resp) ==
    IF resp.status # "ok"
    THEN [session |-> activeSession, dom |-> dom, op |-> "tick_failed", found |-> Undef,
          alert |-> "none"]
    ELSE LET freshData == FindByUsername(resp.userDatabase,
                                         activeSession.userData.username)
             r == RenderDashboard(freshData, dom)
         IN  IF freshData = Undef
             THEN [session |-> [activeSession EXCEPT !.userData = Undef], dom |-> dom,
                   op |-> "tick_missing", found |-> Undef, alert |-> "none"]
             ELSE [session |-> [activeSession EXCEPT !.userData = freshData],
                   dom |-> r.dom,
                   op |-> IF r.threw THEN "tick_sync_fault" ELSE "tick_synced",
                   found |-> freshData, alert |-> "none"]

\* Mutation of SyncOutcome: a sync that cannot reach the vault, or does not
\* find the held key, ends the session.
SyncOutcome_EndSession(resp) ==
    IF resp.status # "ok"
    THEN [session |-> [activeSession EXCEPT !.isAuthenticated = FALSE], dom |-> dom,
          op |-> "tick_failed", found |-> Undef, alert |-> "none"]
    ELSE LET freshData == FindByUsername(resp.userDatabase,
                                         activeSession.userData.username)
             r == RenderDashboard(freshData, dom)
         IN  IF freshData = Undef
             THEN [session |-> [activeSession EXCEPT !.isAuthenticated = FALSE],
                   dom |-> dom, op |-> "tick_missing", found |-> Undef, alert |-> "none"]
             ELSE [session |-> [activeSession EXCEPT !.userData = freshData],
                   dom |-> r.dom,
                   op |-> IF r.threw THEN "tick_sync_fault" ELSE "tick_synced",
                   found |-> freshData, alert |-> "none"]

\* Mutation of SyncOutcome: the catch block reports the failure to the user
\* the way the catch block of processLogin does.
SyncOutcome_AlertOnFailure(resp) ==
    IF resp.status # "ok"
    THEN [session |-> activeSession, dom |-> dom, op |-> "tick_failed", found |-> Undef,
          alert |-> MsgTimeout]
    ELSE LET freshData == FindByUsername(resp.userDatabase,
                                         activeSession.userData.username)
             r == RenderDashboard(freshData, dom)
         IN  IF freshData = Undef
             THEN [session |-> activeSession, dom |-> dom, op |-> "tick_missing",
                   found |-> Undef, alert |-> "none"]
             ELSE [session |-> [activeSession EXCEPT !.userData = freshData],
                   dom |-> r.dom,
                   op |-> IF r.threw THEN "tick_sync_fault" ELSE "tick_synced",
                   found |-> freshData, alert |-> "none"]

\* Mutation of SyncOutcome: the callback takes the first row of the
\* collection instead of looking the held user name up.
SyncOutcome_FirstRow(resp) ==
    IF resp.status # "ok"
    THEN [session |-> activeSession, dom |-> dom, op |-> "tick_failed", found |-> Undef,
          alert |-> "none"]
    ELSE LET freshData == IF resp.userDatabase = <<>> THEN Undef
                          ELSE resp.userDatabase[1]
             r == RenderDashboard(freshData, dom)
         IN  IF freshData = Undef
             THEN [session |-> activeSession, dom |-> dom, op |-> "tick_missing",
                   found |-> Undef, alert |-> "none"]
             ELSE [session |-> [activeSession EXCEPT !.userData = freshData],
                   dom |-> r.dom,
                   op |-> IF r.threw THEN "tick_sync_fault" ELSE "tick_synced",
                   found |-> freshData, alert |-> "none"]

\* Mutation of SyncOutcome: the callback re-renders but does not store the
\* row it found (the assignment of line 172 is missing).
SyncOutcome_NoReplace(resp) ==
    IF resp.status # "ok"
    THEN [session |-> activeSession, dom |-> dom, op |-> "tick_failed", found |-> Undef,
          alert |-> "none"]
    ELSE LET freshData == FindByUsername(resp.userDatabase,
                                         activeSession.userData.username)
             r == RenderDashboard(activeSession.userData, dom)
         IN  IF freshData = Undef
             THEN [session |-> activeSession, dom |-> dom, op |-> "tick_missing",
                   found |-> Undef, alert |-> "none"]
             ELSE [session |-> activeSession,
                   dom |-> r.dom,
                   op |-> IF r.threw THEN "tick_sync_fault" ELSE "tick_synced",
                   found |-> freshData, alert |-> "none"]

\* The callback from the resumption of its awaits to its end, lines 167-178,
\* given the answer resp: what it leaves in the session and on the surfaces,
\* and the alert it raises (none: its catch block only logs a warning).
SyncOutcome(resp) ==
    IF resp.status # "ok"
    THEN [session |-> activeSession, dom |-> dom, op |-> "tick_failed", found |-> Undef,
          alert |-> "none"]
    ELSE LET freshData == FindByUsername(resp.userDatabase,
                                         activeSession.userData.username)
             r == RenderDashboard(freshData, dom)
         IN  IF freshData = Undef
             THEN [session |-> activeSession, dom |-> dom, op |-> "tick_missing",
                   found |-> Undef, alert |-> "none"]
             ELSE [session |-> [activeSession EXCEPT !.userData = freshData],
                   dom |-> r.dom,
                   op |-> IF r.threw THEN "tick_sync_fault" ELSE "tick_synced",
                   found |-> freshData, alert |-> "none"]

TickResume ==
    \E q \in TicksInFlight :
       /\ q.resp # Pending
       /\ network' = network (-) One(q)
       /\ UNCHANGED <<inputUser, inputPass, loading, vault, now>>
       /\ \E o \in {SyncOutcome(q.resp)} :
              /\ activeSession' = o.session
              /\ dom' = o.dom
              /\ alertShown' = o.alert
              /\ lastEvent' = Event(o.op, Issued(q), o.found)

\* ------------------------------------------------------------------ logout
\* window.location.reload(): the page starts over; the fetches of the old
\* page are dropped with it.  The sheet and the wall clock go on.
\* Mutation of Logout: the session object is reset in place; the fetches
\* that are out stay out and their callbacks still run.
Logout_KeepFetches ==
    /\ activeSession' = AnonymousSession
    /\ inputUser' = <<>>
    /\ inputPass' = <<>>
    /\ loading' = FALSE
    /\ alertShown' = "none"
    /\ dom' = BlankDom
    /\ network' = network
    /\ lastEvent' = Event("logout", [kind |-> "page", held |-> HeldKey],
                          Num(BagCardinality(network)))
    /\ UNCHANGED <<vault, now>>

\* The event notes whose record the old page held and how many fetches it
\* had out.
Logout ==
    /\ activeSession' = AnonymousSession
    /\ inputUser' = <<>>
    /\ inputPass' = <<>>
    /\ loading' = FALSE
    /\ alertShown' = "none"
    /\ dom' = BlankDom
    /\ network' = EmptyBag
    /\ lastEvent' = Event("logout", [kind |-> "page", held |-> HeldKey],
                          Num(BagCardinality(network)))
    /\ UNCHANGED <<vault, now>>

Next ==
    \/ TypeCredentials
    \/ AdminEdit
    \/ ServerRespond
    \/ LoginSubmit
    \/ LoginResume
    \/ TimerFire
    \/ TickResume
    \/ Logout

Spec == Init /\ [][Next]_vars

\* ================================================================ claims
Authenticated == activeSession.isAuthenticated

\* The segments that end a processLogin call after its fetch.
LoginEnds == {"login_ok", "login_fault", "login_denied", "login_unavailable"}
\* Those in which the find returned a row.
LoginMatched == {"login_ok", "login_fault"}
\* The number of sync fetches not yet resumed.
TicksAwaiting == BagCardinality([q \in TicksInFlight |-> network[q]])

\* C1: a login attempt that started while the session was Anonymous and ended
\* by showing an error (invalid authorization or vault timed out) leaves the
\* session Anonymous: not authenticated, no record, no timestamp.
C1_FailedLoginLeavesAnonymous ==
    (/\ lastEvent.op \in LoginEnds
     /\ lastEvent.req.startedAnonymous
     /\ alertShown \in {MsgDenied, MsgTimeout})
    => activeSession = AnonymousSession

\* C2: the session is all-or-nothing in every reachable state: authenticated
\* exactly when a record is held exactly when a last-sync timestamp is set.
C2_AllOrNothing ==
    /\ Authenticated <=> activeSession.userData # Null
    /\ activeSession.userData # Null <=> activeSession.lastSync # Null

\* C2 witness: a login has just put a record and a timestamp in the session.
C2_Witness ==
    /\ lastEvent.op \in LoginMatched
    /\ Authenticated
    /\ activeSession.userData = lastEvent.found
    /\ activeSession.lastSync = DateAt(now)

\* C3: when a login's fetch succeeded and the find returned a row, the session
\* is Authenticated at the end of that attempt and holds exactly that row,
\* which is a row matching the credentials in the form.
C3_HoldsVerifiedRecord ==
    lastEvent.op \in LoginMatched =>
        /\ Authenticated
        /\ activeSession.userData = lastEvent.found
        /\ Matches(activeSession.userData, inputUser, inputPass) = "yes"

\* C3 witness: a second login, as another user, has replaced the held record.
C3_Witness ==
    /\ lastEvent.op \in LoginMatched
    /\ ~lastEvent.req.startedAnonymous
    /\ activeSession.userData = Bob

\* C4: the session leaves Anonymous only in a login segment whose find
\* returned a row, and leaves Authenticated only by logout (the reload).
C4_OnlyLoginAuthenticates ==
    [][/\ (~Authenticated /\ Authenticated') => lastEvent'.op \in LoginMatched
       /\ (Authenticated /\ ~Authenticated') => lastEvent'.op = "logout"]_vars

\* C4 witness: the session is still Authenticated after a login or a sync
\* that failed.
C4_Witness ==
    /\ Authenticated
    /\ lastEvent.op \in {"login_denied", "login_unavailable", "tick_failed", "tick_missing"}

\* C5: a timer firing while the session is Anonymous issues no fetch and
\* changes nothing of the session, the surfaces, the button or the form, and
\* raises no alert.
C5_AnonymousTickIsNoOp ==
    [][(now' # now /\ ~Authenticated) =>
          /\ network' = network
          /\ activeSession' = activeSession
          /\ dom' = dom
          /\ loading' = loading
          /\ alertShown' = "none"
          /\ <<inputUser', inputPass'>> = <<inputUser, inputPass>>]_vars

\* C5 witness: the timer has fired on an Anonymous session right after a
\* login attempt that could not reach the vault, and nothing is in flight.
C5_Witness ==
    /\ lastEvent.op = "tick_skip"
    /\ lastEvent.found = Str(<<"login_unavailable">>)
    /\ ~Authenticated
    /\ network = EmptyBag

\* C6: a sync whose fetch succeeded and whose collection has a row with the
\* held user name overwrites the held record with that row and sets the
\* last-sync timestamp to the time of the sync.
C6_SyncUpdatesRecordAndTime ==
    lastEvent.op \in {"tick_synced", "tick_sync_fault"} =>
        /\ activeSession.userData = lastEvent.found
        /\ activeSession.lastSync = DateAt(now)

\* C7: a sync whose fetched collection has no row with the held user name
\* leaves the whole session (record, timestamp, flag) and the surfaces as
\* they were.
C7_MissingKeyLeavesSession ==
    [][lastEvent'.op = "tick_missing" =>
          /\ activeSession' = activeSession
          /\ dom' = dom]_vars

\* C7 witness: a sync has just found no row for the held user name.
C7_Witness ==
    /\ lastEvent.op = "tick_missing"
    /\ Authenticated
    /\ activeSession.userData = Bob

\* C8: a sync whose fetch or parse failed leaves the held record and the
\* surfaces as they were, keeps the session Authenticated and raises no
\* alert; and the loop goes on: after it the timer still fires and fetches
\* (as long as the clock and the fetches in flight are within the bounds).
C8_FailedSyncIsSilent ==
    /\ [][lastEvent'.op = "tick_failed" =>
             /\ activeSession' = activeSession
             /\ Authenticated'
             /\ dom' = dom
             /\ alertShown' = "none"]_vars
    /\ []((/\ lastEvent.op = "tick_failed"
           /\ now < MaxNow
           /\ BagCardinality(network) < MaxInflight)
          => ENABLED (TimerFire /\ lastEvent'.op = "tick_fetch"))

\* C8 witness: a sync has just failed, the session still holds its record and
\* the timer can fire again.
C8_Witness ==
    /\ lastEvent.op = "tick_failed"
    /\ Authenticated
    /\ activeSession.userData = Alice
    /\ now < MaxNow
    /\ network = EmptyBag

\* C9: at no time are the fetches of two sync callbacks in flight together.
C9_TicksNeverOverlap == TicksAwaiting <= 1

\* C10: when processLogin calls overlap, the session stays all-or-nothing;
\* a call that ends with a matched row leaves exactly that row held, and a
\* call that ends without one leaves the session as it was - so after both
\* have ended the session holds the row of the last one that matched, or is
\* unchanged when none did.
C10_OverlappingLoginsLastWins ==
    /\ []((lastEvent.op \in LoginEnds /\ lastEvent.req.overlapped) =>
            /\ C2_AllOrNothing
            /\ lastEvent.op \in LoginMatched =>
                  (Authenticated /\ activeSession.userData = lastEvent.found))
    /\ [][(/\ lastEvent'.op \in {"login_denied", "login_unavailable"}
           /\ lastEvent'.req.overlapped)
          => activeSession' = activeSession]_vars

\* C10 witness: of two overlapping calls the first to end matched Alice's row
\* and the second has just ended without a match; the session holds Alice's.
C10_Witness ==
    /\ lastEvent.op \in {"login_denied", "login_unavailable"}
    /\ lastEvent.req.overlapped
    /\ LoginsInFlight = {}
    /\ Authenticated
    /\ activeSession.userData \in {Alice, AliceEdited}

\* ============================================ the verifier on its own
\* One processLogin call from a fresh page, on any collection of up to
\* MaxRows rows and any credentials, answered at once.
VerifyRows == {Alice, AliceTwin, Bob, Carol, Dan, Eve}

RECURSIVE SeqsUpTo(_, _)
SeqsUpTo(S, n) ==
    IF n = 0 THEN {<<>>}
    ELSE SeqsUpTo(S, n - 1) \cup
         {Append(q, r) : q \in {x \in SeqsUpTo(S, n - 1) : Len(x) = n - 1}, r \in S}

VerifyVaults == SeqsUpTo(VerifyRows, MaxRows)

\* A row's own credentials: its trimmed user name and its password as a
\* string (for the rows that have both).
HasCredentials(u) == IsStr(u.username) /\ (IsStr(u.password) \/ IsNum(u.password))
OwnCredentials(u) == [user |-> Trim(u.username.s), pass |-> TemplateString(u.password)]

VerifyCreds ==
    Creds \cup {OwnCredentials(u) : u \in {r \in VerifyRows : HasCredentials(r)}}
          \cup {[user |-> <<"a">>, pass |-> <<"9">>]}

VerifyInit ==
    /\ activeSession = AnonymousSession
    /\ \E c \in VerifyCreds : inputUser = c.user /\ inputPass = c.pass
    /\ loading = FALSE
    /\ alertShown = "none"
    /\ dom = BlankDom
    /\ vault \in VerifyVaults
    /\ network = EmptyBag
    /\ now = 0
    /\ lastEvent = Event("load", Undef, Undef)

\* processLogin from the click to its end, the fetch answered with r.
VerifyAttempt ==
    /\ lastEvent.op = "load"
    /\ inputUser # <<>> /\ inputPass # <<>>
    /\ \E r \in Responses(vault) :
          LET o == LoginOutcome(r)
              q == [kind |-> "login", resp |-> r, startedAnonymous |-> TRUE,
                    overlapped |-> FALSE]
          IN  /\ activeSession' = o.session
              /\ dom' = o.dom
              /\ alertShown' = o.alert
              /\ loading' = o.loading
              /\ lastEvent' = Event(o.op, q, o.found)
    /\ UNCHANGED <<inputUser, inputPass, vault, network, now>>

VerifyNext == VerifyAttempt

VerifySpec == VerifyInit /\ [][VerifyNext]_vars

\* The credentials (user, pass) are those of row u: same user name after
\* trimming both, and the row's password as a string equals the trimmed pass.
Presents(u, user, pass) ==
    /\ HasCredentials(u)
    /\ Trim(u.username.s) = Trim(user)
    /\ TemplateString(u.password) = Trim(pass)

\* The places in the collection v of the rows that (user, pass) presents.
Hits(v, user, pass) == {i \in 1..Len(v) : Presents(v[i], user, pass)}

First(I) == CHOOSE i \in I : \A j \in I : i <= j

\* C11: the find of processLogin returns the first row, in collection order,
\* that the credentials present; and for every row of the collection, that
\* row's own trimmed user name and stringified password get a row returned,
\* the first one in the collection that they present.
C11_VerifyReturnsFirstMatch ==
    /\ Hits(vault, inputUser, inputPass) # {} =>
          FindCredentials(vault, inputUser, inputPass)
              = vault[First(Hits(vault, inputUser, inputPass))]
    /\ \A i \in 1..Len(vault) :
          HasCredentials(vault[i]) =>
             LET c == OwnCredentials(vault[i])
                 f == FindCredentials(vault, c.user, c.pass)
             IN  /\ f \notin {Undef, Thrown}
                 /\ Trim(f.username.s) = c.user
                 /\ f = vault[First(Hits(vault, c.user, c.pass))]

C13_OutcomeNamesCause ==
    lastEvent.op \in LoginEnds =>
       LET ok == lastEvent.req.resp.status = "ok"
           present == Hits(vault, inputUser, inputPass) # {}
       IN  /\ alertShown = MsgDenied <=> (ok /\ ~present)
           /\ alertShown = MsgTimeout <=> ~ok
           /\ (ok /\ present) => alertShown = "none"

\* C19: a processLogin call made with an empty user name or an empty password
\* ends before any fetch: it issues none, raises the credentials-required
\* alert, and leaves the session and the button as they were.
C19_EmptyFieldRejected ==
    [][((inputUser = <<>> \/ inputPass = <<>>)
        /\ lastEvent'.op \in {"login_submit", "login_rejected"})
       => /\ lastEvent'.op = "login_rejected"
          /\ network' = network
          /\ alertShown' = MsgRequired
          /\ activeSession' = activeSession
          /\ loading' = loading]_vars

\* C19 witness: a call with a user name and no password has just been turned
\* away while an earlier call's fetch is still out and its spinner is shown.
C19_Witness ==
    /\ lastEvent.op = "login_rejected"
    /\ inputUser # <<>> /\ inputPass = <<>>
    /\ alertShown = MsgRequired
    /\ loading
    /\ LoginsInFlight # {}

\* C18: a sync that replaces the held record replaces it with a record of the
\* same user name: across every resumption of the callback that stored a row,
\* the user name held after it is the user name held just before it.
C18_SyncKeepsHeldKey ==
    [][lastEvent'.op \in {"tick_synced", "tick_sync_fault"}
       => activeSession'.userData.username = activeSession.userData.username]_vars

\* C18 witness: a sync has stored a row although its fetch was issued while
\* the session held another user's record (a login ended in between).
C18_Witness ==
    /\ lastEvent.op = "tick_synced"
    /\ lastEvent.found = activeSession.userData
    /\ lastEvent.req.heldAtIssue # activeSession.userData.username

\* What renderDashboard shows of the record u alone: its writes on surfaces
\* that showed nothing before.
Projection(u) == RenderDashboard(u, [BlankDom EXCEPT !.dashboard = TRUE]).dom

\* C16: whenever the session is authenticated (the states are those between
\* two segments), the surfaces show the projection of the held record and
\* nothing of a record held earlier.
C16_ViewIsProjection ==
    Authenticated => dom = Projection(activeSession.userData)

\* C15: after logout() the session holds no record, whatever it held before,
\* and no fetch of the old page is left to bring one back: right after the
\* reload nothing is out, and while the session is anonymous the only fetches
\* out are those of processLogin calls made while it was anonymous.
C15_ResetIsFinal ==
    /\ lastEvent.op = "logout"
          => /\ activeSession = AnonymousSession
             /\ dom = BlankDom
             /\ network = EmptyBag
    /\ ~Authenticated
          => /\ activeSession.userData = Null
             /\ \A q \in BagToSet(network) : q.kind = "login" /\ q.startedAnonymous

\* C15 witness: logout() was called on a page that held a record and had
\* MaxInflight fetches out, and the page is anonymous with nothing out.
C15_Witness ==
    /\ lastEvent.op = "logout"
    /\ lastEvent.req.held # Undef
    /\ lastEvent.found = Num(MaxInflight)
    /\ activeSession = AnonymousSession
    /\ network = EmptyBag

\* ------------------------------------------------- numbered store states
\* The same page against a sheet whose states are told apart: it has the one
\* row of Alice, and each edit by the administrator raises her balance by
\* one, so the balance of a row says which state of the sheet it was read in.
StoreAt(k) == <<[Alice EXCEPT !.balance = Num(k)]>>

StoreStateOf(u) == u.balance.n

FreshInit ==
    /\ activeSession = AnonymousSession
    /\ inputUser = <<>>
    /\ inputPass = <<>>
    /\ loading = FALSE
    /\ alertShown = "none"
    /\ dom = BlankDom
    /\ vault = StoreAt(0)
    /\ network = EmptyBag
    /\ now = 0
    /\ lastEvent = Event("load", Undef, Undef)

FreshEdit ==
    /\ StoreStateOf(vault[1]) < MaxEdits
    /\ vault' = StoreAt(StoreStateOf(vault[1]) + 1)
    /\ lastEvent' = Event("env", Undef, Undef)
    /\ UNCHANGED <<activeSession, inputUser, inputPass, loading, dom,
                   network, now>>
    /\ alertShown' = "none"

FreshNext ==
    \/ TypeCredentials
    \/ FreshEdit
    \/ ServerRespond
    \/ LoginSubmit
    \/ LoginResume
    \/ TimerFire
    \/ TickResume
    \/ Logout

FreshSpec == FreshInit /\ [][FreshNext]_vars

\* C17: no write to the held record goes back in time: across every step
\* that leaves the session authenticated, the record held after it was read
\* in a state of the sheet no earlier than that of the record held before.
C17_FreshnessNeverRegresses ==
    [][(Authenticated /\ Authenticated')
       => StoreStateOf(activeSession'.userData)
             >= StoreStateOf(activeSession.userData)]_vars

\* ------------------------------------------------- the page left running
\* setInterval goes on firing for as long as the page lives.  This
\* specification does not count the periods: the timer fires without end and
\* the times new Date() returns are not told apart.
TimerFireOn ==
    /\ now' = now
    /\ IF activeSession.isAuthenticated
       THEN /\ BagCardinality(network) < MaxInflight
            /\ network' = network (+) One([kind |-> "tick", resp |-> Pending,
                                           heldAtIssue |-> HeldKey])
            /\ lastEvent' = Event("tick_fetch", Undef, Undef)
       ELSE /\ network' = network
            /\ lastEvent' = [Event("tick_skip", Undef, Undef) EXCEPT
                                !.found = Str(<<lastEvent.op>>)]
    /\ UNCHANGED <<activeSession, inputUser, inputPass, loading, dom, vault>>
    /\ alertShown' = "none"

LiveNext ==
    \/ TypeCredentials
    \/ AdminEdit
    \/ ServerRespond
    \/ LoginSubmit
    \/ LoginResume
    \/ TimerFireOn
    \/ TickResume
    \/ Logout

\* The remote end answers a fetch of the given kind.
ServerRespondTo(kind) ==
    /\ ServerRespond
    /\ \E q \in BagToSet(network) :
          /\ q.kind = kind
          /\ q.resp = Pending
          /\ \E r \in Responses(vault) :
                network' = (network (-) One(q)) (+) One([q EXCEPT !.resp = r])

\* An answer is waiting for the call that awaits it.
Answered(kind) == \E q \in BagToSet(network) : q.kind = kind /\ q.resp # Pending

\* The event loop: a fetch of either kind is answered in the end, an answer
\* is handed to the call that awaits it, and the timer fires again and again
\* (it can be held up only by the bound on the fetches that are out).  The
\* two conditions on the resumptions are WF_vars(LoginResume) and
\* WF_vars(TickResume) with their ENABLED written out as Answered.
LiveSpec ==
    /\ Init
    /\ [][LiveNext]_vars
    /\ WF_vars(ServerRespondTo("login"))
    /\ WF_vars(ServerRespondTo("tick"))
    /\ []<>(~Answered("login")) \/ []<><<LoginResume>>_vars
    /\ []<>(~Answered("tick")) \/ []<><<TickResume>>_vars
    /\ SF_vars(TimerFireOn)

\* The held record is the sheet's row of the held user name (if the session
\* is authenticated and the sheet has such a row).
Consistent ==
    (Authenticated /\ FindByUsername(vault, HeldKey) # Undef)
       => activeSession.userData = FindByUsername(vault, HeldKey)

NoFailedAnswer == \A q \in BagToSet(network) : q.resp # [status |-> "failed"]

\* C14: if from some point on the sheet is not edited and no fetch fails,
\* then from some point on the held record is the sheet's row of the held
\* user name, and remains so.
C14_EventuallyConsistent ==
    (<>[][vault' = vault]_vars /\ <>[]NoFailedAnswer) => <>[]Consistent

\* C14 witness: a sync has replaced the record the login stored (the ledger
\* of that record is still shown) with the edited row of the sheet.
C14_Witness ==
    /\ lastEvent.op = "tick_synced"
    /\ vault = <<AliceEdited>>
    /\ activeSession.userData = AliceEdited
    /\ dom.userHistory # <<>>
    /\ Consistent

====
